---- MODULE Spec2Model ----
(***************************************************************************)
(* Enterprise data analytics API (enterprise_data/api/v0 and v1 views):    *)
(* enrollment listing with its per-enterprise cache, overview counts,      *)
(* learner listing, completed courses, admin insights, offer-id            *)
(* normalisation and calendar month subtraction.                           *)
(***************************************************************************)
EXTENDS Integers, Sequences, FiniteSets, TLC

VARIABLES
    enrollments,   \* table EnterpriseLearnerEnrollment (v1) / EnterpriseEnrollment (v0)
    learners,      \* table EnterpriseLearner
    progress,      \* table EnterpriseAdminLearnerProgress: enterprise -> payload or NoRow
    engagement,    \* table EnterpriseAdminSummarizeInsights: enterprise -> payload or NoRow
    cache,         \* TieredCache store: cache key -> entry
    clock,         \* seconds elapsed on the server clock
    today,         \* date.today() / timezone.now() at day granularity
    queries,       \* executions of the filtered enrollment query in get_queryset
    resp,          \* the response of the last request
    arg,           \* the argument of the function under evaluation
    one_month_earlier,  \* local of subtract_one_month
    pc             \* position inside subtract_one_month

vars == <<enrollments, learners, progress, engagement, cache, clock, today,
          queries, resp, arg, one_month_earlier, pc>>

(***************************************************************************)
(* Bounds of the model.                                                    *)
(***************************************************************************)
NumYears == 2
MaxRows == 2
MaxQueries == 2
MaxTicks == 2
MaxSnapshot == 2

(***************************************************************************)
(* Text: a string is a tuple of one-character strings; None and the empty  *)
(* string are both the empty tuple (both are falsy in the views).          *)
(***************************************************************************)
None == <<>>

HexLower == <<"0","1","2","3","4","5","6","7","8","9","a","b","c","d","e","f">>
HexUpper == <<"0","1","2","3","4","5","6","7","8","9","A","B","C","D","E","F">>

\* str.lower() on one character of the alphabet in use
Lower(c) ==
    IF \E i \in 1..16 : HexUpper[i] = c
    THEN HexLower[CHOOSE i \in 1..16 : HexUpper[i] = c]
    ELSE c

LowerStr(s) == [i \in 1..Len(s) |-> Lower(s[i])]

\* field__icontains=needle
icontains(field, needle) ==
    /\ field # None
    /\ \E i \in 0..(Len(field) - Len(needle)) :
          LowerStr(SubSeq(field, i + 1, i + Len(needle))) = LowerStr(needle)

\* str.replace('-', '')
RECURSIVE RemoveHyphens(_)
RemoveHyphens(s) ==
    IF s = <<>> THEN <<>>
    ELSE IF Head(s) = "-" THEN RemoveHyphens(Tail(s))
    ELSE <<Head(s)>> \o RemoveHyphens(Tail(s))

(***************************************************************************)
(* Calendar: a date is <<year, month, day>>.                               *)
(***************************************************************************)
IsLeap(y) == (y % 4 = 0) /\ ((y % 100 # 0) \/ (y % 400 = 0))

DaysInMonth(y, m) ==
    IF m = 2 THEN (IF IsLeap(y) THEN 29 ELSE 28)
    ELSE IF m \in {4, 6, 9, 11} THEN 30 ELSE 31

Year(d) == d[1]
Month(d) == d[2]
Day(d) == d[3]

DateLT(a, b) ==
    \/ a[1] < b[1]
    \/ a[1] = b[1] /\ a[2] < b[2]
    \/ a[1] = b[1] /\ a[2] = b[2] /\ a[3] < b[3]

DateLE(a, b) == a = b \/ DateLT(a, b)

\* d - timedelta(days=1)
MinusOneDay(d) ==
    IF d[3] > 1 THEN <<d[1], d[2], d[3] - 1>>
    ELSE IF d[2] > 1 THEN <<d[1], d[2] - 1, DaysInMonth(d[1], d[2] - 1)>>
    ELSE <<d[1] - 1, 12, 31>>

\* d - timedelta(days=n)
RECURSIVE MinusDays(_, _)
MinusDays(d, n) == IF n = 0 THEN d ELSE MinusDays(MinusOneDay(d), n - 1)

\* d - timedelta(weeks=1)
MinusOneWeek(d) == MinusDays(d, 7)

\* the loop condition without its day-of-month test
Mut_LoopCondition(original_date, e) == Month(e) = Month(original_date)

\* the condition of the while loop of subtract_one_month
LoopCondition(original_date, e) ==
    Month(e) = Month(original_date) \/ Day(e) > Day(original_date)

\* the while loop of subtract_one_month, entered with one_month_earlier = e
RECURSIVE WalkBack(_, _)
WalkBack(original_date, e) ==
    IF LoopCondition(original_date, e)
    THEN WalkBack(original_date, MinusOneDay(e))
    ELSE e

\* v1 module-level subtract_one_month
subtract_one_month(original_date) ==
    WalkBack(original_date, MinusOneDay(original_date))

\* the condition of the while loop of the v0 method
v0_LoopCondition(original_date, e) ==
    Month(e) = Month(original_date) \/ Day(e) > Day(original_date)

\* the while loop of the v0 method
RECURSIVE v0_WalkBack(_, _)
v0_WalkBack(original_date, e) ==
    IF v0_LoopCondition(original_date, e)
    THEN v0_WalkBack(original_date, MinusOneDay(e))
    ELSE e

\* v0 EnterpriseEnrollmentsViewSet.subtract_one_month
v0_subtract_one_month(original_date) ==
    v0_WalkBack(original_date, MinusOneDay(original_date))

Years == 2023..(2022 + NumYears)

Dates == {d \in Years \X (1..12) \X (1..31) : d[3] <= DaysInMonth(d[1], d[2])}

(***************************************************************************)
(* Records of the store.                                                   *)
(***************************************************************************)
Enterprises == {"e1", "e2"}

SampleLearners ==
    { [enterprise_user_id |-> 1, enterprise_customer_uuid |-> "e1", user_email |-> <<"a", "b">>],
      [enterprise_user_id |-> 2, enterprise_customer_uuid |-> "e1", user_email |-> <<"B", "c">>],
      [enterprise_user_id |-> 3, enterprise_customer_uuid |-> "e2", user_email |-> <<"a", "d">>] }

UuidHex == <<"1","2","3","e","4","5","6","7","e","8","9","b","4","2","d","3",
             "a","4","5","6","4","2","6","6","1","4","1","7","4","0","0","0">>

\* the canonical 8-4-4-4-12 form of 32 hex digits
Hyphenate(h) ==
    SubSeq(h, 1, 8) \o <<"-">> \o SubSeq(h, 9, 12) \o <<"-">> \o SubSeq(h, 13, 16)
        \o <<"-">> \o SubSeq(h, 17, 20) \o <<"-">> \o SubSeq(h, 21, 32)

BaseEnrollment ==
    [ enrollment_id |-> 1,
      enterprise_customer_uuid |-> "e1",
      enterprise_user_id |-> 1,
      user_email |-> <<"a", "b">>,
      course_title |-> <<"c", "d">>,
      courserun_key |-> <<"r", "1">>,
      is_consent_granted |-> TRUE,
      has_passed |-> FALSE,
      passed_date |-> None,
      last_activity_date |-> <<2024, 3, 28>>,
      course_start_date |-> <<2024, 1, 10>>,
      course_end_date |-> <<2024, 6, 1>>,
      offer_id |-> <<"4", "2">>,
      budget_id |-> "b1",
      course_list_price |-> <<"1", "0">>,
      course_product_line |-> "OCM",
      is_subsidy |-> TRUE,
      created |-> <<2024, 3, 1>> ]

SampleEnrollments ==
    { BaseEnrollment,
      [BaseEnrollment EXCEPT !.enrollment_id = 2, !.course_title = <<"e", "f">>,
          !.courserun_key = <<"r", "2">>, !.has_passed = TRUE, !.passed_date = <<2024, 3, 27>>,
          !.last_activity_date = <<2024, 2, 28>>, !.course_start_date = <<2023, 9, 1>>,
          !.course_end_date = <<2024, 1, 1>>, !.offer_id = UuidHex, !.budget_id = "b2",
          !.course_list_price = None, !.course_product_line = "Executive Education",
          !.is_subsidy = FALSE, !.created = <<2024, 3, 2>>],
      [BaseEnrollment EXCEPT !.enrollment_id = 3, !.enterprise_user_id = 2,
          !.user_email = <<"B", "c">>, !.is_consent_granted = FALSE,
          !.has_passed = TRUE, !.passed_date = <<2024, 3, 29>>,
          !.last_activity_date = <<2024, 1, 15>>, !.course_end_date = <<2024, 3, 5>>,
          !.offer_id = None, !.budget_id = "b2"],
      [BaseEnrollment EXCEPT !.enrollment_id = 4, !.enterprise_user_id = 2,
          !.user_email = <<"B", "c">>, !.courserun_key = <<"r", "2">>,
          !.has_passed = TRUE,
          !.passed_date = <<2024, 2, 20>>, !.course_end_date = <<2024, 3, 31>>],
      [BaseEnrollment EXCEPT !.enrollment_id = 5, !.enterprise_customer_uuid = "e2",
          !.enterprise_user_id = 3, !.user_email = <<"a", "d">>,
          !.last_activity_date = <<2024, 3, 30>>,
          !.created = <<2024, 3, 3>>] }

Todays == {<<2024, 3, 31>>, <<2024, 3, 5>>}

(***************************************************************************)
(* Query parameters of the enrollment list (request.query_params).         *)
(***************************************************************************)
NoParams ==
    [ passed_date |-> "", learner_activity |-> "", search |-> None, search_all |-> None,
      search_course |-> None, search_start_date |-> None, offer_id |-> None,
      budget_id |-> "", ignore_null_course_list_price |-> "", course_product_line |-> "",
      is_subsidy |-> "" ]

SampleParams ==
    { NoParams,
      [NoParams EXCEPT !.passed_date = "last_week"],
      [NoParams EXCEPT !.learner_activity = "active_past_week"],
      [NoParams EXCEPT !.learner_activity = "inactive_past_week"],
      [NoParams EXCEPT !.learner_activity = "inactive_past_month"],
      [NoParams EXCEPT !.search = <<"A">>],
      [NoParams EXCEPT !.search_all = <<"c">>],
      [NoParams EXCEPT !.search_course = <<"f">>],
      [NoParams EXCEPT !.search_start_date = <<2024, 1, 10>>],
      [NoParams EXCEPT !.offer_id = <<"4", "2">>],
      [NoParams EXCEPT !.offer_id = Hyphenate(UuidHex)],
      [NoParams EXCEPT !.budget_id = "b2"],
      [NoParams EXCEPT !.ignore_null_course_list_price = "true"],
      [NoParams EXCEPT !.course_product_line = "OCM"],
      [NoParams EXCEPT !.is_subsidy = "true"],
      [NoParams EXCEPT !.search = <<"b">>, !.is_subsidy = "false"] }

\* the query strings of the requests to the cached views
RequestParams ==
    { NoParams,
      [NoParams EXCEPT !.passed_date = "last_week"],
      [NoParams EXCEPT !.search_all = <<"c">>] }

(***************************************************************************)
(* uuid.UUID(offer_id, version=4) and the normalisation of the offer id.   *)
(***************************************************************************)
IsHexDigit(c) == \E i \in 1..16 : HexLower[i] = c \/ HexUpper[i] = c

HexValue(c) == (CHOOSE i \in 1..16 : HexLower[i] = c \/ HexUpper[i] = c) - 1

\* UUID(hex): the hyphens are dropped, then 32 hexadecimal digits are required
UUIDParses(s) ==
    LET hex == RemoveHyphens(s)
    IN Len(hex) = 32 /\ \A i \in 1..32 : IsHexDigit(hex[i])

\* the 32 nibbles of UUID(s, version=4).int: the variant bits are set to 10
\* (nibble 17) and the version nibble (13) to 4
UUIDv4Nibbles(s) ==
    LET hex == RemoveHyphens(s)
    IN [i \in 1..32 |->
          IF i = 13 THEN 4
          ELSE IF i = 17 THEN 8 + (HexValue(hex[i]) % 4)
          ELSE HexValue(hex[i])]

\* str(UUID(...)).replace('-', '')
FormatHex(nibbles) == [i \in 1..32 |-> HexLower[nibbles[i] + 1]]

\* UUID(offer_id, version=4): the object, or the exception raised
UUID4(s) ==
    IF UUIDParses(s)
    THEN [raises |-> "", nibbles |-> UUIDv4Nibbles(s)]
    ELSE [raises |-> "ValueError"]

\* the try/except of filter_by_offer_id: the offer id compared, or the exception
\* that escapes
NormalizeOfferId(offer_id) ==
    LET offer_id_uuid_obj == UUID4(offer_id)
    IN IF offer_id_uuid_obj.raises = ""
       THEN [raises |-> "",
             offer_id |-> RemoveHyphens(Hyphenate(FormatHex(offer_id_uuid_obj.nibbles)))]
       ELSE IF offer_id_uuid_obj.raises = "ValueError"
       THEN [raises |-> "", offer_id |-> offer_id]
       ELSE [raises |-> offer_id_uuid_obj.raises, offer_id |-> offer_id]

filter_by_offer_id(queryset, offer_id) ==
    {r \in queryset : /\ NormalizeOfferId(offer_id).raises = ""
                      /\ r.offer_id # None
                      /\ r.offer_id = NormalizeOfferId(offer_id).offer_id}

(***************************************************************************)
(* Filters of EnterpriseLearnerEnrollmentViewSet.                          *)
(***************************************************************************)
filter_active_enrollments(queryset, now) ==
    {r \in queryset : r.has_passed = FALSE /\ DateLE(now, r.course_end_date)}

\* the comparison turned round
Mut_filter_active_learners(queryset, last_activity_date) ==
    {r \in queryset : DateLE(r.last_activity_date, last_activity_date)}

filter_active_learners(queryset, last_activity_date) ==
    {r \in queryset : DateLE(last_activity_date, r.last_activity_date)}

filter_inactive_learners(queryset, last_activity_date) ==
    {r \in queryset : DateLE(r.last_activity_date, last_activity_date)}

filter_distinct_learners(queryset) == {r.enterprise_user_id : r \in queryset}

filter_distinct_active_learners(queryset, last_activity_date) ==
    filter_distinct_learners(filter_active_learners(queryset, last_activity_date))

filter_course_completions(queryset) == {r \in queryset : r.has_passed = TRUE}

filter_past_week_completions(queryset, now) ==
    {r \in queryset :
        /\ r.has_passed = TRUE
        /\ r.passed_date # None
        /\ DateLE(r.passed_date, now)
        /\ DateLE(MinusOneWeek(now), r.passed_date)}

\* BooleanField.to_python of a query string value
ToBool(v) == v \in {"True", "true", "1", "t"}

\* the steps of apply_filters, each a refinement of the queryset so far
apply_passed_date(queryset, query_filters, now) ==
    IF query_filters.passed_date = "last_week"
    THEN filter_past_week_completions(queryset, now) ELSE queryset

apply_learner_activity(queryset, query_filters, now) ==
    IF query_filters.learner_activity # ""
    THEN filter_active_enrollments(queryset, now) ELSE queryset

apply_activity_window(queryset, query_filters, past_week_date, past_month_date) ==
    IF query_filters.learner_activity = "active_past_week"
    THEN filter_active_learners(queryset, past_week_date)
    ELSE IF query_filters.learner_activity = "inactive_past_week"
    THEN filter_inactive_learners(queryset, past_week_date)
    ELSE IF query_filters.learner_activity = "inactive_past_month"
    THEN filter_inactive_learners(queryset, past_month_date)
    ELSE queryset

apply_search(queryset, query_filters) ==
    IF query_filters.search # None
    THEN {r \in queryset : icontains(r.user_email, query_filters.search)} ELSE queryset

apply_search_all(queryset, query_filters) ==
    IF query_filters.search_all # None
    THEN {r \in queryset : \/ icontains(r.user_email, query_filters.search_all)
                           \/ icontains(r.course_title, query_filters.search_all)}
    ELSE queryset

apply_search_course(queryset, query_filters) ==
    IF query_filters.search_course # None
    THEN {r \in queryset : icontains(r.course_title, query_filters.search_course)}
    ELSE queryset

apply_search_start_date(queryset, query_filters) ==
    IF query_filters.search_start_date # None
    THEN {r \in queryset : r.course_start_date = query_filters.search_start_date}
    ELSE queryset

apply_offer_id(queryset, query_filters) ==
    IF query_filters.offer_id # None
    THEN filter_by_offer_id(queryset, query_filters.offer_id) ELSE queryset

\* a step that starts again from the whole table
Mut_apply_budget_id(queryset, query_filters) ==
    IF query_filters.budget_id # ""
    THEN {r \in enrollments : r.budget_id = query_filters.budget_id} ELSE queryset

apply_budget_id(queryset, query_filters) ==
    IF query_filters.budget_id # ""
    THEN {r \in queryset : r.budget_id = query_filters.budget_id} ELSE queryset

apply_ignore_null_course_list_price(queryset, query_filters) ==
    IF query_filters.ignore_null_course_list_price # ""
    THEN {r \in queryset : r.course_list_price # None} ELSE queryset

apply_course_product_line(queryset, query_filters) ==
    IF query_filters.course_product_line # ""
    THEN {r \in queryset : r.course_product_line = query_filters.course_product_line}
    ELSE queryset

apply_is_subsidy(queryset, query_filters) ==
    IF query_filters.is_subsidy # ""
    THEN {r \in queryset : r.is_subsidy = ToBool(query_filters.is_subsidy)} ELSE queryset

apply_filters(queryset, query_filters, now) ==
    apply_is_subsidy(
     apply_course_product_line(
      apply_ignore_null_course_list_price(
       apply_budget_id(
        apply_offer_id(
         apply_search_start_date(
          apply_search_course(
           apply_search_all(
            apply_search(
             apply_activity_window(
              apply_learner_activity(
               apply_passed_date(queryset, query_filters, now),
               query_filters, now),
              query_filters, MinusOneWeek(now), subtract_one_month(now)),
             query_filters),
            query_filters),
           query_filters),
          query_filters),
         query_filters),
        query_filters),
       query_filters),
      query_filters),
     query_filters)

(***************************************************************************)
(* Filter backends and the cache of the v1 enrollment list.                *)
(***************************************************************************)
DEFAULT_LEARNER_CACHE_TIMEOUT == 60 * 10

\* the mandatory pre-filter of the v1 enrollment views (filter_backends, applied
\* by filter_queryset): rows lacking consent are left out
AuditEnrollmentsFilterBackend(queryset) ==
    {r \in queryset : r.is_consent_granted = TRUE}

\* ConsentGrantedFilterBackend (v0): only consenting learners
ConsentGrantedFilterBackend(queryset) ==
    {r \in queryset : r.is_consent_granted = TRUE}

\* enterprise_data.utils.get_cache_key: one key per combination of arguments
get_cache_key(resource, enterprise_customer) == <<resource, enterprise_customer>>

\* a key that leaves the enterprise out
Mut_cache_key(enterprise_customer_uuid) ==
    get_cache_key("enterprise-learner", CHOOSE e \in Enterprises : TRUE)

\* the key get_queryset builds for the enterprise of the request
cache_key(enterprise_customer_uuid) ==
    get_cache_key("enterprise-learner", enterprise_customer_uuid)

CacheKeys == {cache_key(e) : e \in Enterprises}

NoEntry == [stored |-> FALSE, value |-> {}, expiry |-> 0]

\* a lookup that never expires an entry
Mut_get_cached_response(key) ==
    [is_found |-> cache[key].stored, value |-> cache[key].value]

\* TieredCache.get_cached_response at the current time
get_cached_response(key) ==
    [is_found |-> cache[key].stored /\ clock < cache[key].expiry,
     value |-> cache[key].value]

\* TieredCache.set_all_tiers(key, value, timeout)
set_all_tiers(key, value, timeout) ==
    [cache EXCEPT ![key] = [stored |-> TRUE, value |-> value, expiry |-> clock + timeout]]

\* the query of the else branch of get_queryset
ComputeEnrollments(enterprise_customer_uuid, query_filters) ==
    apply_filters({r \in enrollments : r.enterprise_customer_uuid = enterprise_customer_uuid},
                  query_filters, today)

\* the value EnterpriseLearnerEnrollmentViewSet.get_queryset returns
get_queryset(enterprise_customer_uuid, query_filters) ==
    LET cached_response == get_cached_response(cache_key(enterprise_customer_uuid))
    IN IF cached_response.is_found
       THEN cached_response.value
       ELSE ComputeEnrollments(enterprise_customer_uuid, query_filters)

\* what get_queryset does to the cache and to the query counter
get_queryset_effect(enterprise_customer_uuid, query_filters) ==
    LET key == cache_key(enterprise_customer_uuid)
    IN IF get_cached_response(key).is_found
       THEN UNCHANGED <<cache, queries>>
       ELSE /\ queries < MaxQueries
            /\ queries' = queries + 1
            /\ cache' = set_all_tiers(key,
                            ComputeEnrollments(enterprise_customer_uuid, query_filters),
                            DEFAULT_LEARNER_CACHE_TIMEOUT)

\* queryset.aggregate(Max('created'))
get_max_created_date(queryset) ==
    IF queryset = {} THEN None
    ELSE (CHOOSE r \in queryset : \A o \in queryset : DateLE(o.created, r.created)).created

\* EnterpriseLearner rows of the enterprise
filter_number_of_users(enterprise_id) ==
    {l \in learners : l.enterprise_customer_uuid = enterprise_id}

\* the content of the v1 overview computed from the queryset get_queryset returned
overview_content(enterprise_id, queryset) ==
    LET filtered == AuditEnrollmentsFilterBackend(queryset)
    IN [ enrolled_learners |-> Cardinality(filter_distinct_learners(filtered)),
         active_past_week |->
             Cardinality(filter_distinct_active_learners(filtered, MinusOneWeek(today))),
         active_past_month |->
             Cardinality(filter_distinct_active_learners(filtered, subtract_one_month(today))),
         course_completions |-> Cardinality(filter_course_completions(filtered)),
         last_updated_date |-> get_max_created_date(filtered),
         number_of_users |-> Cardinality(filter_number_of_users(enterprise_id)) ]

NoResp == [op |-> "none"]

NoRows == [e \in Enterprises |-> 0]

(***************************************************************************)
(* The store is filled by the ingestion outside the views.                 *)
(***************************************************************************)
AddEnrollment(r) ==
    /\ Cardinality(enrollments) < MaxRows
    /\ \A o \in enrollments : o.enrollment_id # r.enrollment_id
    /\ \E l \in learners :
          /\ l.enterprise_user_id = r.enterprise_user_id
          /\ l.enterprise_customer_uuid = r.enterprise_customer_uuid
    /\ enrollments' = enrollments \cup {r}
    /\ resp' = NoResp
    /\ UNCHANGED <<learners, progress, engagement, cache, clock, today, queries, arg,
                   one_month_earlier, pc>>

MarkPassed(r) ==
    /\ r \in enrollments
    /\ r.has_passed = FALSE
    /\ enrollments' = (enrollments \ {r})
                         \cup {[r EXCEPT !.has_passed = TRUE, !.passed_date = today]}
    /\ resp' = NoResp
    /\ UNCHANGED <<learners, progress, engagement, cache, clock, today, queries, arg,
                   one_month_earlier, pc>>

\* time passes (within the day)
Tick(d) ==
    /\ clock + d <= MaxTicks * (DEFAULT_LEARNER_CACHE_TIMEOUT \div 2)
    /\ clock' = clock + d
    /\ resp' = NoResp
    /\ UNCHANGED <<enrollments, learners, progress, engagement, cache, today, queries, arg,
                   one_month_earlier, pc>>

(***************************************************************************)
(* Requests of the v1 enrollment views.                                    *)
(***************************************************************************)
\* GET /enterprise/{id}/enrollments/
EnrollmentList(enterprise_id, query_params) ==
    /\ get_queryset_effect(enterprise_id, query_params)
    /\ resp' = [ op |-> "list",
                 enterprise_id |-> enterprise_id,
                 query_params |-> query_params,
                 is_found |-> get_cached_response(cache_key(enterprise_id)).is_found,
                 queryset |-> get_queryset(enterprise_id, query_params),
                 results |-> AuditEnrollmentsFilterBackend(get_queryset(enterprise_id, query_params)) ]
    /\ UNCHANGED <<enrollments, learners, progress, engagement, clock, today, arg,
                   one_month_earlier, pc>>

\* GET /enterprise/{id}/enrollments/overview/
Overview(enterprise_id, query_params) ==
    /\ get_queryset_effect(enterprise_id, query_params)
    /\ resp' = [ op |-> "overview",
                 enterprise_id |-> enterprise_id,
                 query_params |-> query_params,
                 is_found |-> get_cached_response(cache_key(enterprise_id)).is_found,
                 queryset |-> get_queryset(enterprise_id, query_params),
                 content |-> overview_content(enterprise_id,
                                 get_queryset(enterprise_id, query_params)) ]
    /\ UNCHANGED <<enrollments, learners, progress, engagement, clock, today, arg,
                   one_month_earlier, pc>>

Init ==
    /\ enrollments = {}
    /\ learners = SampleLearners
    /\ progress = NoRows
    /\ engagement = NoRows
    /\ cache = [k \in CacheKeys |-> NoEntry]
    /\ clock = 0
    /\ today \in Todays
    /\ queries = 0
    /\ resp = NoResp
    /\ arg = None
    /\ one_month_earlier = None
    /\ pc = "idle"

Next ==
    \/ \E r \in SampleEnrollments : AddEnrollment(r)
    \/ \E r \in enrollments : MarkPassed(r)
    \/ \E d \in {DEFAULT_LEARNER_CACHE_TIMEOUT \div 2, DEFAULT_LEARNER_CACHE_TIMEOUT} : Tick(d)
    \/ \E e \in Enterprises, qp \in RequestParams : EnrollmentList(e, qp)
    \/ \E e \in Enterprises, qp \in RequestParams : Overview(e, qp)

Spec == Init /\ [][Next]_vars

(***************************************************************************)
(* The same views over a store that does not change.                       *)
(***************************************************************************)
InitStatic ==
    /\ enrollments \in {S \in SUBSET SampleEnrollments : Cardinality(S) <= MaxRows}
    /\ learners = SampleLearners
    /\ progress = NoRows
    /\ engagement = NoRows
    /\ cache = [k \in CacheKeys |-> NoEntry]
    /\ clock = 0
    /\ today \in Todays
    /\ queries = 0
    /\ resp = NoResp
    /\ arg = None
    /\ one_month_earlier = None
    /\ pc = "idle"

NextStatic ==
    \/ \E d \in {DEFAULT_LEARNER_CACHE_TIMEOUT \div 2, DEFAULT_LEARNER_CACHE_TIMEOUT} : Tick(d)
    \/ \E e \in Enterprises, qp \in RequestParams : EnrollmentList(e, qp)
    \/ \E e \in Enterprises, qp \in RequestParams : Overview(e, qp)

SpecStatic == InitStatic /\ [][NextStatic]_vars

(***************************************************************************)
(* v0 overview (EnterpriseEnrollmentsViewSet).                             *)
(***************************************************************************)
HTTP_200_OK == 200
HTTP_404_NOT_FOUND == 404

\* v0 get_queryset before ensure_data_exists
v0_get_queryset(enterprise_id) ==
    ConsentGrantedFilterBackend({r \in enrollments : r.enterprise_customer_uuid = enterprise_id})

\* a check that never raises
Mut_ensure_data_exists(data) == ""

\* ensure_data_exists raises NotFound on empty data
ensure_data_exists(data) == IF data = {} THEN "NotFound" ELSE ""

v0_filter_active_learners(queryset, last_activity_date) ==
    filter_distinct_learners({r \in queryset : DateLE(last_activity_date, r.last_activity_date)})

v0_overview_content(queryset) ==
    [ enrolled_learners |-> Cardinality(filter_distinct_learners(queryset)),
      active_past_week |-> Cardinality(v0_filter_active_learners(queryset, MinusOneWeek(today))),
      active_past_month |->
          Cardinality(v0_filter_active_learners(queryset, v0_subtract_one_month(today))),
      course_completions |-> Cardinality({r \in queryset : r.has_passed = TRUE}) ]

\* GET (v0) /enterprise/{id}/enrollments/overview/
V0Overview(enterprise_id) ==
    /\ resp' = IF ensure_data_exists(v0_get_queryset(enterprise_id)) = "NotFound"
               THEN [ op |-> "v0_overview", enterprise_id |-> enterprise_id,
                      status |-> HTTP_404_NOT_FOUND, logged |-> TRUE ]
               ELSE [ op |-> "v0_overview", enterprise_id |-> enterprise_id,
                      status |-> HTTP_200_OK, logged |-> FALSE,
                      content |-> v0_overview_content(v0_get_queryset(enterprise_id)) ]
    /\ UNCHANGED <<enrollments, learners, progress, engagement, cache, clock, today, queries,
                   arg, one_month_earlier, pc>>

(***************************************************************************)
(* Learner listing (EnterpriseLearnerViewSet) and completed courses.       *)
(***************************************************************************)
Flags == {"", "true", "false"}

LearnerParams ==
    [ has_enrollments : Flags, active_courses : Flags, all_enrollments_passed : Flags,
      extra_fields : SUBSET {"enrollment_count", "course_completion_count"} ]

\* the rows the relation `enrollments` joins to a learner, out of the table `table`
EnrollmentsOf(table, l) == {r \in table : r.enterprise_user_id = l.enterprise_user_id}

\* rows of the join added by the has_enrollments filter
HasEnrollmentsJoin(table, l, has_enrollments) ==
    IF has_enrollments = "true" THEN Cardinality(EnrollmentsOf(table, l))
    ELSE IF has_enrollments = "false" THEN (IF EnrollmentsOf(table, l) = {} THEN 1 ELSE 0)
    ELSE 1

\* rows of the join added by the active_courses filter
ActiveCoursesJoin(table, l, active_courses, now) ==
    IF active_courses = "true"
    THEN Cardinality({r \in EnrollmentsOf(table, l) :
                         r.is_consent_granted = TRUE /\ DateLE(now, r.course_end_date)})
    ELSE IF active_courses = "false"
    THEN Cardinality({r \in EnrollmentsOf(table, l) :
                         r.is_consent_granted = TRUE /\ DateLE(r.course_end_date, now)})
    ELSE 1

\* rows of the join added by the all_enrollments_passed filter
AllEnrollmentsPassedJoin(table, l, all_enrollments_passed) ==
    IF all_enrollments_passed = "true"
    THEN Cardinality({r \in EnrollmentsOf(table, l) : r.has_passed = TRUE})
    ELSE IF all_enrollments_passed = "false"
    THEN Cardinality({r \in EnrollmentsOf(table, l) : r.has_passed = FALSE})
    ELSE 1

\* how many times the filtered, joined queryset yields the learner
Copies(table, l, qp, now) ==
    LET n == HasEnrollmentsJoin(table, l, qp.has_enrollments)
               * ActiveCoursesJoin(table, l, qp.active_courses, now)
               * AllEnrollmentsPassedJoin(table, l, qp.all_enrollments_passed)
    IN IF qp.has_enrollments = "true" /\ n > 1 THEN 1 ELSE n

\* Subquery(...values('enrollment_count')): one row per group, none without rows
CountSubquery(rows) ==
    IF rows = {} THEN <<>> ELSE <<Cardinality({r.enrollment_id : r \in rows})>>

Coalesce(subquery, default) == IF subquery = <<>> THEN default ELSE subquery[1]

\* the enrollment count without the consent condition
Mut_EnrollmentCountSubquery(table, l) == CountSubquery(EnrollmentsOf(table, l))

EnrollmentCountSubquery(table, l) ==
    CountSubquery({r \in EnrollmentsOf(table, l) : r.is_consent_granted = TRUE})

CourseCompletionCountSubquery(table, l) ==
    CountSubquery({r \in EnrollmentsOf(table, l) :
                      r.has_passed = TRUE /\ r.is_consent_granted = TRUE})

\* the annotations extra_fields adds to a learner
Annotations(table, l, extra_fields) ==
    [k \in extra_fields |->
        IF k = "enrollment_count"
        THEN Coalesce(EnrollmentCountSubquery(table, l), 0)
        ELSE Coalesce(CourseCompletionCountSubquery(table, l), 0)]

\* EnterpriseLearnerViewSet.get_queryset over the tables given
learner_get_queryset(table, people, qp, now) ==
    { [ learner |-> l, copies |-> Copies(table, l, qp, now),
        extra |-> Annotations(table, l, qp.extra_fields) ] :
      l \in {p \in people : Copies(table, p, qp, now) > 0} }

\* EnterpriseLearnerViewSet.list: the users of the enterprise
learner_list(table, people, enterprise_id, qp, now) ==
    {u \in learner_get_queryset(table, people, qp, now) :
        u.learner.enterprise_customer_uuid = enterprise_id}

\* GET /enterprise/{id}/learners/
LearnerList(enterprise_id, query_params) ==
    /\ resp' = [ op |-> "learners", enterprise_id |-> enterprise_id,
                 query_params |-> query_params,
                 users |-> learner_list(enrollments, learners, enterprise_id,
                                        query_params, today) ]
    /\ UNCHANGED <<enrollments, learners, progress, engagement, cache, clock, today, queries,
                   arg, one_month_earlier, pc>>

\* completed courses without the consent condition
Mut_completed_courses(table, enterprise_id) ==
    LET rows == {r \in table : /\ r.enterprise_customer_uuid = enterprise_id
                               /\ r.has_passed = TRUE}
    IN { [ user_email |-> email,
           completed_courses |->
               Cardinality({r \in rows : r.user_email = email /\ r.courserun_key # None}) ] :
         email \in {r.user_email : r \in rows} }

\* EnterpriseLearnerCompletedCoursesViewSet.get_queryset
completed_courses(table, enterprise_id) ==
    LET rows == {r \in table : /\ r.enterprise_customer_uuid = enterprise_id
                               /\ r.has_passed = TRUE
                               /\ r.is_consent_granted = TRUE}
    IN { [ user_email |-> email,
           completed_courses |->
               Cardinality({r \in rows : r.user_email = email /\ r.courserun_key # None}) ] :
         email \in {r.user_email : r \in rows} }

\* GET /enterprise/{id}/learners/completed_courses/
CompletedCourses(enterprise_id) ==
    /\ resp' = [ op |-> "completed_courses", enterprise_id |-> enterprise_id,
                 rows |-> completed_courses(enrollments, enterprise_id) ]
    /\ UNCHANGED <<enrollments, learners, progress, engagement, cache, clock, today, queries,
                   arg, one_month_earlier, pc>>

NextViews ==
    \/ \E r \in SampleEnrollments : AddEnrollment(r)
    \/ \E r \in enrollments : MarkPassed(r)
    \/ \E e \in Enterprises, qp \in LearnerParams : LearnerList(e, qp)
    \/ \E e \in Enterprises : CompletedCourses(e)
    \/ \E e \in Enterprises : V0Overview(e)

SpecViews == Init /\ [][NextViews]_vars

(***************************************************************************)
(* The two overviews on any day of the first months of 2024.               *)
(***************************************************************************)
OverviewDays == {d \in Dates : Year(d) = 2024 /\ Month(d) <= 4}

InitOverview ==
    /\ enrollments \in {S \in SUBSET SampleEnrollments : Cardinality(S) <= MaxRows}
    /\ learners = SampleLearners
    /\ progress = NoRows
    /\ engagement = NoRows
    /\ cache = [k \in CacheKeys |-> NoEntry]
    /\ clock = 0
    /\ today \in OverviewDays
    /\ queries = 0
    /\ resp = NoResp
    /\ arg = None
    /\ one_month_earlier = None
    /\ pc = "idle"

NextOverview ==
    \/ \E e \in Enterprises : Overview(e, NoParams)
    \/ \E e \in Enterprises : V0Overview(e)

SpecOverview == InitOverview /\ [][NextOverview]_vars

(***************************************************************************)
(* apply_filters on combinations of query parameters.                      *)
(***************************************************************************)
\* the query string holding the parameters of p and, where p has none, of q
Merge(p, q) ==
    [f \in DOMAIN NoParams |-> IF p[f] # NoParams[f] THEN p[f] ELSE q[f]]

ParamCombinations == {Merge(Merge(p, q), s) : p \in SampleParams, q \in SampleParams, s \in SampleParams}

InitFilters ==
    /\ enrollments \in SUBSET SampleEnrollments
    /\ learners = SampleLearners
    /\ progress = NoRows
    /\ engagement = NoRows
    /\ cache = [k \in CacheKeys |-> NoEntry]
    /\ clock = 0
    /\ today \in Todays
    /\ queries = 0
    /\ resp = NoResp
    /\ arg \in ParamCombinations
    /\ one_month_earlier = None
    /\ pc = "idle"

\* enrollments = self.apply_filters(enrollments)
ApplyFilters ==
    /\ resp = NoResp
    /\ resp' = [ op |-> "apply_filters",
                 queryset |-> apply_filters(enrollments, arg, today) ]
    /\ UNCHANGED <<enrollments, learners, progress, engagement, cache, clock, today, queries,
                   arg, one_month_earlier, pc>>

NextFilters == ApplyFilters

SpecFilters == InitFilters /\ [][NextFilters]_vars

(***************************************************************************)
(* subtract_one_month, one statement at a time.                            *)
(***************************************************************************)
InitDate ==
    /\ enrollments = {}
    /\ learners = SampleLearners
    /\ progress = NoRows
    /\ engagement = NoRows
    /\ cache = [k \in CacheKeys |-> NoEntry]
    /\ clock = 0
    /\ today = <<2024, 3, 31>>
    /\ queries = 0
    /\ resp = NoResp
    /\ arg \in Dates
    /\ one_month_earlier = None
    /\ pc = "start"

\* one_month_earlier = original_date - one_day
SubtractEnter ==
    /\ pc = "start"
    /\ one_month_earlier' = MinusOneDay(arg)
    /\ pc' = "while"
    /\ UNCHANGED <<enrollments, learners, progress, engagement, cache, clock, today, queries,
                   resp, arg>>

\* one_month_earlier -= one_day
SubtractLoop ==
    /\ pc = "while"
    /\ LoopCondition(arg, one_month_earlier)
    /\ one_month_earlier' = MinusOneDay(one_month_earlier)
    /\ UNCHANGED <<enrollments, learners, progress, engagement, cache, clock, today, queries,
                   resp, arg, pc>>

\* return one_month_earlier
SubtractReturn ==
    /\ pc = "while"
    /\ ~LoopCondition(arg, one_month_earlier)
    /\ pc' = "done"
    /\ resp' = [op |-> "subtract_one_month", value |-> one_month_earlier]
    /\ UNCHANGED <<enrollments, learners, progress, engagement, cache, clock, today, queries,
                   arg, one_month_earlier>>

NextDate == SubtractEnter \/ SubtractLoop \/ SubtractReturn

SpecDate == InitDate /\ [][NextDate]_vars /\ WF_vars(NextDate)

(***************************************************************************)
(* filter_by_offer_id on offer ids of the query string.                    *)
(***************************************************************************)
Upper(c) ==
    IF \E i \in 1..16 : HexLower[i] = c
    THEN HexUpper[CHOOSE i \in 1..16 : HexLower[i] = c]
    ELSE c

UpperStr(s) == [i \in 1..Len(s) |-> Upper(s[i])]

\* 32 hex digits with the version nibble v and the variant nibble w
HexWith(v, w) == [UuidHex EXCEPT ![13] = HexLower[v + 1], ![17] = HexLower[w + 1]]

OfferIdInputs ==
    UNION { { Hyphenate(HexWith(v, w)), UpperStr(Hyphenate(HexWith(v, w))), HexWith(v, w) } :
            v \in 0..15, w \in 0..15 }
      \cup { <<"4", "2">>,
             <<"x">>,
             SubSeq(Hyphenate(UuidHex), 1, 35),
             [Hyphenate(UuidHex) EXCEPT ![1] = "g"] }

StoredOffers ==
    { BaseEnrollment,
      [BaseEnrollment EXCEPT !.enrollment_id = 2, !.offer_id = UuidHex],
      [BaseEnrollment EXCEPT !.enrollment_id = 3, !.offer_id = HexWith(1, 10)],
      [BaseEnrollment EXCEPT !.enrollment_id = 4, !.offer_id = None] }

InitOffer ==
    /\ enrollments = StoredOffers
    /\ learners = SampleLearners
    /\ progress = NoRows
    /\ engagement = NoRows
    /\ cache = [k \in CacheKeys |-> NoEntry]
    /\ clock = 0
    /\ today = <<2024, 3, 31>>
    /\ queries = 0
    /\ resp = NoResp
    /\ arg \in OfferIdInputs
    /\ one_month_earlier = None
    /\ pc = "idle"

\* queryset = self.filter_by_offer_id(queryset, offer_id)
FilterByOfferId ==
    /\ resp = NoResp
    /\ resp' = [ op |-> "filter_by_offer_id",
                 raises |-> NormalizeOfferId(arg).raises,
                 offer_id |-> NormalizeOfferId(arg).offer_id,
                 queryset |-> filter_by_offer_id(enrollments, arg) ]
    /\ UNCHANGED <<enrollments, learners, progress, engagement, cache, clock, today, queries,
                   arg, one_month_earlier, pc>>

NextOffer == FilterByOfferId

SpecOffer == InitOffer /\ [][NextOffer]_vars

(***************************************************************************)
(* Admin insights (EnterpriseAdminInsightsView.get).                       *)
(***************************************************************************)
\* objects.get(enterprise_customer_uuid=enterprise_id) on a table of at most
\* one row per enterprise: the row, or DoesNotExist
GetRow(table, enterprise_id) ==
    IF table[enterprise_id] = 0
    THEN [raises |-> "DoesNotExist"]
    ELSE [raises |-> "", row |-> [enterprise_customer_uuid |-> enterprise_id,
                                  snapshot |-> table[enterprise_id]]]

\* serializer(row).data: the fields of the row
SerializerData(row) == row

EmptyDict == <<>>

IsEmptyDict(d) == DOMAIN d = {}

\* learner_progress after the first try/except
LearnerProgressOf(enterprise_id) ==
    IF GetRow(progress, enterprise_id).raises = ""
    THEN SerializerData(GetRow(progress, enterprise_id).row) ELSE EmptyDict

\* learner_engagement after the second try/except
LearnerEngagementOf(enterprise_id) ==
    IF GetRow(engagement, enterprise_id).raises = ""
    THEN SerializerData(GetRow(engagement, enterprise_id).row) ELSE EmptyDict

\* not-found as soon as one of the two is {}
Mut_InsightsStatus(learner_progress, learner_engagement) ==
    IF IsEmptyDict(learner_progress) \/ IsEmptyDict(learner_engagement)
    THEN HTTP_404_NOT_FOUND ELSE HTTP_200_OK

\* status = HTTP_200_OK unless both are {}
InsightsStatus(learner_progress, learner_engagement) ==
    IF IsEmptyDict(learner_progress) /\ IsEmptyDict(learner_engagement)
    THEN HTTP_404_NOT_FOUND ELSE HTTP_200_OK

\* response_data: the keys assigned inside the two try blocks
InsightsData(enterprise_id) ==
    [k \in {key \in {"learner_progress", "learner_engagement"} :
               \/ key = "learner_progress" /\ GetRow(progress, enterprise_id).raises = ""
               \/ key = "learner_engagement" /\ GetRow(engagement, enterprise_id).raises = ""}
       |-> IF k = "learner_progress" THEN LearnerProgressOf(enterprise_id)
           ELSE LearnerEngagementOf(enterprise_id)]

\* GET /enterprise/{id}/insights/
Insights(enterprise_id) ==
    /\ resp' = [ op |-> "insights", enterprise_id |-> enterprise_id,
                 status |-> InsightsStatus(LearnerProgressOf(enterprise_id),
                                           LearnerEngagementOf(enterprise_id)),
                 data |-> InsightsData(enterprise_id) ]
    /\ UNCHANGED <<enrollments, learners, progress, engagement, cache, clock, today, queries,
                   arg, one_month_earlier, pc>>

InitInsights ==
    /\ enrollments = {}
    /\ learners = SampleLearners
    /\ progress \in [Enterprises -> 0..MaxSnapshot]
    /\ engagement \in [Enterprises -> 0..MaxSnapshot]
    /\ cache = [k \in CacheKeys |-> NoEntry]
    /\ clock = 0
    /\ today = <<2024, 3, 31>>
    /\ queries = 0
    /\ resp = NoResp
    /\ arg = None
    /\ one_month_earlier = None
    /\ pc = "idle"

NextInsights == \E e \in Enterprises : Insights(e)

SpecInsights == InitInsights /\ [][NextInsights]_vars

(***************************************************************************)
(* Properties.                                                             *)
(***************************************************************************)

\* C1: the set a v1 enrollment list request gets from get_queryset is exactly
\* the enrollments of its enterprise that satisfy the predicates selected by
\* the request's own query parameters, whatever requests came before.
C1_ListMatchesOwnParams ==
    resp.op = "list" =>
        resp.queryset =
            apply_filters({r \in enrollments : r.enterprise_customer_uuid = resp.enterprise_id},
                          resp.query_params, today)

\* C2: get_queryset is get_or_compute with a ttl of 600 seconds: on a stored,
\* unexpired entry of the request's key the stored value is returned and nothing
\* is computed or stored; otherwise the filtered set is computed, returned and
\* stored under the key with expiry now + 600, the other keys untouched.
C2_GetOrCompute ==
    [][ resp'.op = "list" =>
          LET key == <<"enterprise-learner", resp'.enterprise_id>>
              fresh == apply_filters(
                           {r \in enrollments :
                               r.enterprise_customer_uuid = resp'.enterprise_id},
                           resp'.query_params, today)
          IN IF cache[key].stored /\ clock < cache[key].expiry
             THEN /\ resp'.queryset = cache[key].value
                  /\ resp'.is_found
                  /\ cache' = cache
                  /\ queries' = queries
             ELSE /\ resp'.queryset = fresh
                  /\ ~resp'.is_found
                  /\ queries' = queries + 1
                  /\ cache'[key] = [stored |-> TRUE, value |-> fresh, expiry |-> clock + 600]
                  /\ \A k \in DOMAIN cache : k # key => cache'[k] = cache[k] ]_vars

\* C2 witness: the first request after the expiry of the only entry recomputes
\* and stores the set again.
C2_Witness ==
    /\ resp.op = "list"
    /\ ~resp.is_found
    /\ queries = 2
    /\ clock >= 600
    /\ resp.queryset # {}
    /\ \A e \in Enterprises :
          cache[<<"enterprise-learner", e>>].stored <=> e = resp.enterprise_id
    /\ cache[<<"enterprise-learner", resp.enterprise_id>>].expiry = clock + 600

\* C3: whatever the interleaving of list and overview requests for the
\* enterprises, every enrollment returned or counted for a request on
\* enterprise E, and every enrollment cached under the key of E, is one of E.
C3_NoCrossEnterprise ==
    /\ \A key \in DOMAIN cache :
          \A r \in cache[key].value : r.enterprise_customer_uuid = key[2]
    /\ resp.op \in {"list", "overview"} =>
          \A r \in resp.queryset : r.enterprise_customer_uuid = resp.enterprise_id
    /\ resp.op = "overview" =>
          /\ resp.content.enrolled_learners =
                Cardinality({r.enterprise_user_id : r \in
                    {o \in resp.queryset : /\ o.enterprise_customer_uuid = resp.enterprise_id
                                           /\ o.is_consent_granted = TRUE}})
          /\ resp.content.number_of_users =
                Cardinality({l \in learners : l.enterprise_customer_uuid = resp.enterprise_id})

\* C3 witness: an overview served from the cache while both enterprises have a
\* non-empty set cached.
C3_Witness ==
    /\ resp.op = "overview"
    /\ resp.is_found
    /\ resp.queryset # {}
    /\ \A e \in Enterprises :
          /\ cache[<<"enterprise-learner", e>>].stored
          /\ cache[<<"enterprise-learner", e>>].value # {}

\* C4: an enrollment with is_consent_granted = false has no effect on the
\* overview counts (v0 and v1) nor on which learners the v1 learner listing
\* returns under has_enrollments, active_courses and all_enrollments_passed:
\* the result is the one obtained from the consent-granted enrollments alone.
C4_ConsentPrefilter ==
    LET consented == {r \in enrollments : r.is_consent_granted = TRUE}
    IN /\ resp.op = "learners" =>
             {u.learner : u \in resp.users} =
                {u.learner : u \in learner_list(consented, learners, resp.enterprise_id,
                                                resp.query_params, today)}
       /\ (resp.op = "v0_overview" /\ resp.status = 200) =>
             LET rows == {r \in consented : r.enterprise_customer_uuid = resp.enterprise_id}
             IN /\ resp.content.enrolled_learners =
                      Cardinality({r.enterprise_user_id : r \in rows})
                /\ resp.content.course_completions =
                      Cardinality({r \in rows : r.has_passed = TRUE})
       /\ resp.op = "overview" =>
             LET rows == {r \in resp.queryset : r.is_consent_granted = TRUE}
             IN /\ resp.content.enrolled_learners =
                      Cardinality({r.enterprise_user_id : r \in rows})
                /\ resp.content.course_completions =
                      Cardinality({r \in rows : r.has_passed = TRUE})

\* C5: the completed_courses listing of enterprise E has, for each user_email,
\* one row whose completed_courses is the number of E's enrollments of that
\* email with has_passed and is_consent_granted both true, and no row for an
\* email without such an enrollment.
C5_CompletedCourses ==
    resp.op = "completed_courses" =>
        LET Qualifying(email) ==
                {r \in enrollments : /\ r.enterprise_customer_uuid = resp.enterprise_id
                                     /\ r.user_email = email
                                     /\ r.has_passed = TRUE
                                     /\ r.is_consent_granted = TRUE}
            emails == {r.user_email : r \in enrollments} \cup {l.user_email : l \in learners}
        IN /\ \A row \in resp.rows : row.user_email \in emails
           /\ \A email \in emails :
                 LET listed == {row \in resp.rows : row.user_email = email}
                 IN IF Qualifying(email) = {}
                    THEN listed = {}
                    ELSE listed = {[ user_email |-> email,
                                     completed_courses |-> Cardinality(Qualifying(email)) ]}

\* C5 witness: a listing with a count of 1 for an email that has a second
\* passed enrollment, one lacking consent.
C5_Witness ==
    /\ resp.op = "completed_courses"
    /\ \E row \in resp.rows :
          /\ row.completed_courses = 1
          /\ \E r \in enrollments :
                /\ r.enterprise_customer_uuid = resp.enterprise_id
                /\ r.user_email = row.user_email
                /\ r.has_passed = TRUE
                /\ r.is_consent_granted = FALSE

\* C6: with enrollment_count (course_completion_count) among extra_fields every
\* listed learner carries the number of their enrollments with consent (with
\* consent and has_passed), a number even when it is 0, whatever the listing
\* filters; only the annotations asked for are present.
C6_NestedCounts ==
    resp.op = "learners" =>
        \A u \in resp.users :
            LET mine == {r \in enrollments :
                            r.enterprise_user_id = u.learner.enterprise_user_id}
            IN /\ DOMAIN u.extra = resp.query_params.extra_fields
               /\ "enrollment_count" \in resp.query_params.extra_fields =>
                     /\ u.extra["enrollment_count"] \in Nat
                     /\ u.extra["enrollment_count"] =
                           Cardinality({r.enrollment_id : r \in
                                           {o \in mine : o.is_consent_granted = TRUE}})
               /\ "course_completion_count" \in resp.query_params.extra_fields =>
                     /\ u.extra["course_completion_count"] \in Nat
                     /\ u.extra["course_completion_count"] =
                           Cardinality({r.enrollment_id : r \in
                                           {o \in mine : /\ o.is_consent_granted = TRUE
                                                         /\ o.has_passed = TRUE}})

\* C6 witness: a listed learner whose only enrollments lack consent carries an
\* enrollment_count of 0, next to a course_completion_count.
C6_Witness ==
    /\ resp.op = "learners"
    /\ resp.query_params.extra_fields = {"enrollment_count", "course_completion_count"}
    /\ \E u \in resp.users :
          /\ u.extra["enrollment_count"] = 0
          /\ \E r \in enrollments : r.enterprise_user_id = u.learner.enterprise_user_id

\* C7: subtract_one_month returns, for every date D, the latest date R before D
\* with month(R) # month(D) and day(R) <= day(D); 2024-03-31 gives 2024-02-29 and
\* 2023-03-31 gives 2023-02-28; the v0 method gives the same date; and the loop
\* always comes to its return.
C7_SubtractOneMonth ==
    /\ [](pc = "done" =>
            LET D == arg
                R == resp.value
                Fits(X) == DateLT(X, D) /\ Month(X) # Month(D) /\ Day(X) <= Day(D)
                Between == {X \in ((Year(D) - 1)..Year(D)) \X (1..12) \X (1..31) :
                               /\ X[3] <= DaysInMonth(X[1], X[2])
                               /\ DateLT(R, X)
                               /\ DateLT(X, D)}
            IN /\ Fits(R)
               /\ \A X \in Between : ~Fits(X)
               /\ D = <<2024, 3, 31>> => R = <<2024, 2, 29>>
               /\ D = <<2023, 3, 31>> => R = <<2023, 2, 28>>
               /\ v0_subtract_one_month(D) = R
               /\ subtract_one_month(D) = R)
    /\ <>(pc = "done")

\* C7 witness: the call on 2024-03-31 has returned 2024-02-29.
C7_Witness ==
    /\ pc = "done"
    /\ arg = <<2024, 3, 31>>
    /\ resp.value = <<2024, 2, 29>>
    /\ v0_subtract_one_month(arg) = <<2024, 2, 29>>

\* C8: the course_completions of a v1 overview (requested without filters) is
\* the number N of the enterprise's consented enrollments with has_passed true
\* at the time of the request.
C8_CourseCompletions ==
    (resp.op = "overview" /\ resp.query_params = NoParams) =>
        resp.content.course_completions =
            Cardinality({r \in enrollments : /\ r.enterprise_customer_uuid = resp.enterprise_id
                                             /\ r.is_consent_granted = TRUE
                                             /\ r.has_passed = TRUE})

\* C9: the insights response is 404 exactly when the enterprise has neither a
\* learner-progress nor a learner-engagement row and 200 otherwise, with the key
\* learner_progress (learner_engagement) present exactly when the progress
\* (engagement) row exists, carrying that row.
C9_Insights ==
    resp.op = "insights" =>
        LET e == resp.enterprise_id
            has_progress == progress[e] # 0
            has_engagement == engagement[e] # 0
        IN /\ resp.status = 404 <=> (~has_progress /\ ~has_engagement)
           /\ resp.status = 200 <=> (has_progress \/ has_engagement)
           /\ "learner_progress" \in DOMAIN resp.data <=> has_progress
           /\ "learner_engagement" \in DOMAIN resp.data <=> has_engagement
           /\ DOMAIN resp.data \subseteq {"learner_progress", "learner_engagement"}
           /\ has_progress => resp.data["learner_progress"].snapshot = progress[e]
           /\ has_engagement => resp.data["learner_engagement"].snapshot = engagement[e]

\* C9 witness: a 200 carrying learner_progress alone, the engagement row absent.
C9_Witness ==
    /\ resp.op = "insights"
    /\ resp.status = 200
    /\ engagement[resp.enterprise_id] = 0
    /\ DOMAIN resp.data = {"learner_progress"}

\* C10: filter_by_offer_id compares a UUID string by exactly its own hex digits,
\* lowercased and with the hyphens removed, and any other input literally and
\* unchanged, never raising; the rows kept are those whose stored offer_id
\* equals that value.
C10_OfferIdNormalized ==
    resp.op = "filter_by_offer_id" =>
        LET own == LowerStr(RemoveHyphens(arg))
            is_uuid == /\ Len(RemoveHyphens(arg)) = 32
                       /\ \A i \in 1..32 : IsHexDigit(RemoveHyphens(arg)[i])
            compared == IF is_uuid THEN own ELSE arg
        IN /\ resp.raises = ""
           /\ resp.offer_id = compared
           /\ resp.queryset = {r \in enrollments : r.offer_id = compared}

\* C11: in the learner listing active_courses=true and active_courses=false are
\* complementary over the consent-granted enrollments: each consent-granted
\* enrollment qualifies its learner under exactly one of the two values, an
\* enrollment lacking consent under neither, and a listing filtered by
\* active_courses alone shows the learners some enrollment qualifies.
C11_ActiveCoursesComplementary ==
    (resp.op = "learners" /\ resp.query_params.active_courses \in {"true", "false"}) =>
        LET qualifies(r, flag) ==
                \E l \in learners : /\ l.enterprise_user_id = r.enterprise_user_id
                                    /\ ActiveCoursesJoin({r}, l, flag, today) > 0
        IN /\ \A r \in enrollments :
                 IF r.is_consent_granted = TRUE
                 THEN qualifies(r, "true") # qualifies(r, "false")
                 ELSE ~qualifies(r, "true") /\ ~qualifies(r, "false")
           /\ (resp.query_params.has_enrollments = ""
                   /\ resp.query_params.all_enrollments_passed = "") =>
                 {u.learner : u \in resp.users} =
                    {l \in learners :
                        /\ l.enterprise_customer_uuid = resp.enterprise_id
                        /\ \E r \in enrollments :
                              /\ r.enterprise_user_id = l.enterprise_user_id
                              /\ qualifies(r, resp.query_params.active_courses)}

\* C15: with all_enrollments_passed=true the learner listing returns only
\* learners none of whose enrollments has has_passed = false, each of them
\* exactly once.
C15_AllEnrollmentsPassed ==
    (resp.op = "learners" /\ resp.query_params.all_enrollments_passed = "true") =>
        \A u \in resp.users :
            /\ \A r \in enrollments :
                  r.enterprise_user_id = u.learner.enterprise_user_id => r.has_passed = TRUE
            /\ u.copies = 1

\* C12: the v0 overview of an enterprise whose consent-filtered enrollment set
\* is empty ends in a logged not-found error without counts; when the set is
\* not empty no error is raised and the counts of that set are returned.
C12_V0OverviewNotFound ==
    resp.op = "v0_overview" =>
        LET rows == {r \in enrollments : /\ r.enterprise_customer_uuid = resp.enterprise_id
                                         /\ r.is_consent_granted = TRUE}
        IN IF rows = {}
           THEN /\ resp.status = 404
                /\ resp.logged = TRUE
                /\ "content" \notin DOMAIN resp
           ELSE /\ resp.status = 200
                /\ resp.logged = FALSE
                /\ resp.content.enrolled_learners =
                      Cardinality({r.enterprise_user_id : r \in rows})
                /\ resp.content.course_completions =
                      Cardinality({r \in rows : r.has_passed = TRUE})
                /\ resp.content.active_past_week =
                      Cardinality({r.enterprise_user_id : r \in
                          {o \in rows : DateLE(MinusOneWeek(today), o.last_activity_date)}})

\* C12 witness: a not-found answer for an enterprise whose only enrollments
\* lack consent.
C12_Witness ==
    /\ resp.op = "v0_overview"
    /\ resp.status = 404
    /\ \E r \in enrollments : /\ r.enterprise_customer_uuid = resp.enterprise_id
                               /\ r.is_consent_granted = FALSE

\* C14: in every overview response (v0 and v1) past_week <= past_month <=
\* enrolled_learners, the one-month cutoff being never later than the one-week
\* cutoff.
C14_ActiveLearnersOrdered ==
    (resp.op = "overview" \/ (resp.op = "v0_overview" /\ resp.status = 200)) =>
        /\ DateLE(subtract_one_month(today), MinusOneWeek(today))
        /\ DateLE(v0_subtract_one_month(today), MinusOneWeek(today))
        /\ resp.content.active_past_week <= resp.content.active_past_month
        /\ resp.content.active_past_month <= resp.content.enrolled_learners

\* C14 witness: an overview in which the three counts differ.
C14_Witness ==
    /\ resp.op = "overview"
    /\ resp.content.active_past_week < resp.content.active_past_month
    /\ resp.content.active_past_month < resp.content.enrolled_learners

\* C13: for every base enrollment set and every combination of recognized
\* query parameters, apply_filters returns the intersection of the results of
\* each parameter's filter applied alone (search_all being the single
\* predicate: user_email or course_title contains the text).
C13_FiltersConjunction ==
    resp.op = "apply_filters" =>
        LET only(f) == [g \in DOMAIN NoParams |-> IF g = f THEN arg[g] ELSE NoParams[g]]
            alone(f) == apply_filters(enrollments, only(f), today)
        IN /\ resp.queryset = {r \in enrollments : \A f \in DOMAIN NoParams : r \in alone(f)}
           /\ arg.search_all # None =>
                 alone("search_all") =
                    {r \in enrollments : \/ icontains(r.user_email, arg.search_all)
                                          \/ icontains(r.course_title, arg.search_all)}

\* C13 witness: two parameters given, each alone keeping more than both
\* together, and some enrollment kept.
C13_Witness ==
    /\ resp.op = "apply_filters"
    /\ resp.queryset # {}
    /\ \E f \in DOMAIN NoParams, g \in DOMAIN NoParams :
          /\ f # g
          /\ arg[f] # NoParams[f]
          /\ arg[g] # NoParams[g]
          /\ apply_filters(enrollments,
                 [h \in DOMAIN NoParams |-> IF h = f THEN arg[h] ELSE NoParams[h]], today)
                # resp.queryset
          /\ apply_filters(enrollments,
                 [h \in DOMAIN NoParams |-> IF h = g THEN arg[h] ELSE NoParams[h]], today)
                # resp.queryset

====
